---- MODULE Spec2Model ----
(***************************************************************************)
(* A model of the SFCU mortgage rate monitor (src/src/check_rates.py and   *)
(* src/src/config.py): one invocation of main() fetches the rates, compares*)
(* them with the newest stored snapshot, sends an e-mail on a change and   *)
(* prepends the new snapshot to the history file.                          *)
(*                                                                         *)
(* Numbers.  Python floats are modelled as exact scaled integers: rates and*)
(* APRs in units of 0.0001 percentage points (6.2503 is 62503), payments in*)
(* cents, points in whole points.  The subtractions and comparisons of the *)
(* code are order-preserving on floats, so the scaled integers follow them.*)
(*                                                                         *)
(* Optional values.  A value that may be None (or a key that may be absent,*)
(* which dict.get() turns into None) is a set with at most one element:    *)
(* {} is None, {v} is the value v.  For "points" the empty set stands for  *)
(* an absent key, which is the case r.get("points", default) is about.     *)
(***************************************************************************)
EXTENDS Integers, Sequences, FiniteSets, TLC

\* ------------------------------------------------------------------ bounds
\* Longest rate sequence handed to best_by_product.
MaxLen == 3
\* Longest old and new rate sequence handed to rates_changed.
MaxPairLen == 2
\* Calls of save_history and load_history in one behaviour.
MaxCalls == 2
\* Most snapshots of a History handed to save_history/load_history.
MaxSnaps == 2
\* Invocations of main() in one behaviour.
MaxRuns == 3

\* ------------------------------------------------------- program constants
\* abs(diff) < 0.0005, in units of 0.0001
RATE_EPSILON == 5
\* abs(pmt_d) >= 0.01, in cents
PAYMENT_EPSILON == 1
\* r.get("points", 99)
POINTS_DEFAULT == 99

\* --------------------------------------------------------- optional values
None == {}
Some(v) == {v}
Val(o) == CHOOSE v \in o : TRUE
\* Python's  d.get(key, default)
GetOr(o, default) == IF o = None THEN default ELSE Val(o)
\* Python's  (x or 0)  on a number or None
OrZero(o) == IF o = None THEN 0 ELSE Val(o)
Abs(x) == IF x < 0 THEN -x ELSE x

\* ------------------------------------------------------------ rate options
\* One dict appended by fetch_rates.
RateOption(p, r, a, m, pts, pr) ==
    [product |-> p, rate |-> r, apr |-> a, monthly_payment |-> m,
     points |-> pts, price |-> pr]

\* Str order of the product names that occur (Python compares str by code point).
ProductRank(p) ==
    CASE p = "15 Yr Fixed" -> 1
      [] p = "30 Yr Fixed" -> 2
      [] p = "7 Year ARM" -> 3

Products(rates) == {rates[i].product : i \in 1..Len(rates)}

\* All sequences over S of length 0..n.
SeqsUpTo(S, n) == UNION {[1..k -> S] : k \in 0..n}

\* ------------------------------------------------------------ best_by_product
\* The loop of best_by_product from element i on; best is the dict built so far.
RECURSIVE BestLoop(_, _, _)
BestLoop(rates, i, best) ==
    IF i > Len(rates) THEN best
    ELSE LET r == rates[i]
             p == r.product
             take == \/ p \notin DOMAIN best
                     \/ GetOr(r.points, POINTS_DEFAULT)
                          < GetOr(best[p].points, POINTS_DEFAULT)
             next == IF take
                     THEN [q \in (DOMAIN best) \cup {p} |->
                             IF q = p THEN r ELSE best[q]]
                     ELSE best
         IN BestLoop(rates, i + 1, next)

EmptyDict == [q \in {} |-> 0]

best_by_product(rates) == BestLoop(rates, 1, EmptyDict)

\* rates_changed with the emptiness test inverted (if old_rates: return True).
rates_changed_if_old(old_rates, new_rates) ==
    IF old_rates # <<>> THEN TRUE
    ELSE LET old_best == best_by_product(old_rates)
             new_best == best_by_product(new_rates)
         IN IF DOMAIN old_best # DOMAIN new_best THEN TRUE
            ELSE \E product \in DOMAIN new_best :
                    \/ old_best[product].rate # new_best[product].rate
                    \/ old_best[product].apr # new_best[product].apr

\* rates_changed comparing the rate alone.
rates_changed_rate_only(old_rates, new_rates) ==
    IF old_rates = <<>> THEN TRUE
    ELSE LET old_best == best_by_product(old_rates)
             new_best == best_by_product(new_rates)
         IN IF DOMAIN old_best # DOMAIN new_best THEN TRUE
            ELSE \E product \in DOMAIN new_best :
                    old_best[product].rate # new_best[product].rate

\* ------------------------------------------------------------ rates_changed
rates_changed(old_rates, new_rates) ==
    IF old_rates = <<>> THEN TRUE
    ELSE LET old_best == best_by_product(old_rates)
             new_best == best_by_product(new_rates)
         IN IF DOMAIN old_best # DOMAIN new_best THEN TRUE
            ELSE \E product \in DOMAIN new_best :
                    \/ old_best[product].rate # new_best[product].rate
                    \/ old_best[product].apr # new_best[product].apr

\* ------------------------------------------------------------------ formats
\* Nearest multiple of 10 of a value in units of 0.0001: the "%.3f" of the code
\* counts thousandths.  (On an exact tie "%.3f" follows the float's binary
\* expansion; the values used below have no ties.)
Round3(v) == IF v < 0 THEN -((-v + 5) \div 10) ELSE (v + 5) \div 10

fmt_rate(val) ==
    IF val # None THEN [text |-> "%.3f%", n |-> Round3(Val(val))]
    ELSE [text |-> "N/A", n |-> 0]

fmt_payment(val) ==
    IF val # None THEN [text |-> "$%,.2f", n |-> Val(val)]
    ELSE [text |-> "N/A", n |-> 0]

fmt_points(val) ==
    IF val # None THEN [text |-> "%.1f", n |-> 10 * Val(val)]
    ELSE [text |-> "N/A", n |-> 0]

NoMarker == [color |-> "", text |-> "", n |-> 0]

diff_arrow(old_val, new_val) ==
    IF old_val = None \/ new_val = None THEN NoMarker
    ELSE LET diff == Val(new_val) - Val(old_val)
         IN IF Abs(diff) < RATE_EPSILON THEN NoMarker
            ELSE IF diff > 0
                 THEN [color |-> "#d32f2f", text |-> "&#9650; +%.3f", n |-> Round3(diff)]
                 ELSE [color |-> "#2e7d32", text |-> "&#9660; %.3f", n |-> Round3(diff)]

\* summary_change without the tolerance, as rates_changed compares.
summary_change_exact(diff) ==
    IF diff = 0
    THEN [color |-> "#666", text |-> "no change", n |-> 0]
    ELSE IF diff > 0
         THEN [color |-> "#d32f2f", text |-> "&#9650; +%.3f%", n |-> Round3(diff)]
         ELSE [color |-> "#2e7d32", text |-> "&#9660; %.3f%", n |-> Round3(diff)]

\* The rate_color/rate_change (and apr_color/apr_change) chain of the summary table.
summary_change(diff) ==
    IF Abs(diff) < RATE_EPSILON
    THEN [color |-> "#666", text |-> "no change", n |-> 0]
    ELSE IF diff > 0
         THEN [color |-> "#d32f2f", text |-> "&#9650; +%.3f%", n |-> Round3(diff)]
         ELSE [color |-> "#2e7d32", text |-> "&#9660; %.3f%", n |-> Round3(diff)]

\* The payment marker of a row of the full table.
payment_diff(old_pmt, new_pmt) ==
    IF old_pmt = None \/ new_pmt = None THEN NoMarker
    ELSE LET pmt_d == Val(new_pmt) - Val(old_pmt)
         IN IF Abs(pmt_d) >= PAYMENT_EPSILON
            THEN [color |-> IF pmt_d > 0 THEN "#d32f2f" ELSE "#2e7d32",
                  text |-> IF pmt_d > 0 THEN "&#9650; $%,.2f" ELSE "&#9660; $%,.2f",
                  n |-> Abs(pmt_d)]
            ELSE NoMarker

\* ------------------------------------------------------------------ sorting
\* sorted(keys): the product names of S in str order.
RECURSIVE SortedProducts(_)
SortedProducts(S) ==
    IF S = {} THEN <<>>
    ELSE LET p == CHOOSE x \in S : \A y \in S : ProductRank(x) <= ProductRank(y)
         IN <<p>> \o SortedProducts(S \ {p})

\* The sort key  (x["product"], x.get("points", 0))  compared as tuples.
KeyLess(a, b) ==
    \/ ProductRank(a.product) < ProductRank(b.product)
    \/ /\ a.product = b.product
       /\ GetOr(a.points, 0) < GetOr(b.points, 0)

\* x put into the sorted s behind every element that is not greater (stable).
RECURSIVE InsertSorted(_, _)
InsertSorted(s, x) ==
    IF s = <<>> THEN <<x>>
    ELSE IF KeyLess(x, Head(s)) THEN <<x>> \o s
         ELSE <<Head(s)>> \o InsertSorted(Tail(s), x)

RECURSIVE SortLoop(_, _, _)
SortLoop(rates, i, acc) ==
    IF i > Len(rates) THEN acc
    ELSE SortLoop(rates, i + 1, InsertSorted(acc, rates[i]))

\* sorted(rates, key=lambda x: (x["product"], x.get("points", 0)))
sorted_rates(rates) == SortLoop(rates, 1, <<>>)

\* --------------------------------------------------------- format_rate_table
format_rate_table(rates) ==
    LET s == sorted_rates(rates)
    IN [i \in 1..Len(s) |->
          [product |-> s[i].product,
           rate |-> fmt_rate(s[i].rate),
           apr |-> fmt_rate(s[i].apr),
           payment |-> fmt_payment(s[i].monthly_payment),
           points |-> fmt_points(s[i].points)]]

\* ---------------------------------------------------------- build_email_html
\* email_header with the two titles swapped.
email_header_swapped(old_rates) == IF old_rates # <<>> THEN "Initial" ELSE "Change"

\* "Change" if old_rates else "Initial"
email_header(old_rates) == IF old_rates # <<>> THEN "Change" ELSE "Initial"

NoCell == [text |-> "", n |-> 0]

\* One row of "Summary of Changes": the deltas of a product both snapshots
\* have, or the NEW marker.
summary_row(product, old_best, new_best) ==
    LET new == new_best[product]
    IN IF product \in DOMAIN old_best
       THEN LET old == old_best[product]
                rate_diff == OrZero(new.rate) - OrZero(old.rate)
                apr_diff == OrZero(new.apr) - OrZero(old.apr)
            IN [product |-> product, marker |-> "",
                prev_rate |-> fmt_rate(old.rate), cur_rate |-> fmt_rate(new.rate),
                rate_change |-> summary_change(rate_diff),
                prev_apr |-> fmt_rate(old.apr), cur_apr |-> fmt_rate(new.apr),
                apr_change |-> summary_change(apr_diff)]
       ELSE [product |-> product, marker |-> "NEW",
             prev_rate |-> NoCell, cur_rate |-> NoCell, rate_change |-> NoMarker,
             prev_apr |-> NoCell, cur_apr |-> NoCell, apr_change |-> NoMarker]

\* The summary table: present only with a prior snapshot, a row per product of
\* the new reduction, in sorted order.
summary_table(old_rates, new_rates) ==
    IF old_rates # <<>>
    THEN LET new_best == best_by_product(new_rates)
             old_best == best_by_product(old_rates)
             keys == SortedProducts(DOMAIN new_best)
         IN [i \in 1..Len(keys) |-> summary_row(keys[i], old_best, new_best)]
    ELSE <<>>

\* old_lookup.get((product, points)): the last old option with that key.
old_lookup(old_rates, product, points) ==
    LET hits == {i \in 1..Len(old_rates) :
                    /\ old_rates[i].product = product
                    /\ old_rates[i].points = points}
    IN IF hits = {} THEN None
       ELSE Some(old_rates[CHOOSE i \in hits : \A j \in hits : j <= i])

\* One row of "All Rate Options" with its inline markers.
option_row(r, old_rates) ==
    LET old == old_lookup(old_rates, r.product, r.points)
    IN [product |-> r.product,
        rate |-> fmt_rate(r.rate),
        rate_diff |-> IF old # None THEN diff_arrow(Val(old).rate, r.rate) ELSE NoMarker,
        apr |-> fmt_rate(r.apr),
        apr_diff |-> IF old # None THEN diff_arrow(Val(old).apr, r.apr) ELSE NoMarker,
        payment |-> fmt_payment(r.monthly_payment),
        payment_diff |-> IF old # None
                         THEN payment_diff(Val(old).monthly_payment, r.monthly_payment)
                         ELSE NoMarker,
        points |-> fmt_points(r.points)]

build_email_html(old_rates, new_rates, checked_at) ==
    LET s == sorted_rates(new_rates)
    IN [header |-> email_header(old_rates),
        checked_at |-> checked_at,
        has_summary |-> old_rates # <<>>,
        summary |-> summary_table(old_rates, new_rates),
        options |-> [i \in 1..Len(s) |-> option_row(s[i], old_rates)]]

\* ------------------------------------------------------------- configuration
\* config.TRACKED_PRODUCTS
TRACKED_PRODUCTS == {"30 Yr Fixed", "7 Year ARM"}

\* config.ALERT_EMAIL
ALERT_EMAIL == "alert@example.com"

\* The values GMAIL_USER and GMAIL_APP_PASSWORD can take: unset is "".
Environments == [GMAIL_USER : {"", "me@gmail.com"}, GMAIL_APP_PASSWORD : {"", "app-pw"}]

\* ---------------------------------------------------------------- fetch_rates
\* tracked.lower() in name.lower(), on the product type names that occur below:
\* each either is a tracked name or contains none.
ContainsIgnoreCase(name, tracked) == name = tracked

\* The dicts appended for one product type: every priced entry, absent
\* "discounts" read as 0.
GroupRates(pt) ==
    [i \in 1..Len(pt.products) |->
        LET prod == pt.products[i]
        IN RateOption(pt.name, prod.rate, prod.apr, prod.monthlyPayments,
                      Some(GetOr(prod.discounts, 0)), prod.price)]

RECURSIVE FetchLoop(_, _, _)
FetchLoop(product_types, i, rates) ==
    IF i > Len(product_types) THEN rates
    ELSE LET pt == product_types[i]
         IN IF ~ \E tracked \in TRACKED_PRODUCTS : ContainsIgnoreCase(pt.name, tracked)
            THEN FetchLoop(product_types, i + 1, rates)
            ELSE FetchLoop(product_types, i + 1, rates \o GroupRates(pt))

\* fetch_rates on a response that passed raise_for_status.
fetch_rates(data) == FetchLoop(data, 1, <<>>)

\* ------------------------------------------------------------------- the API
ApiProduct(r, a, m, d, pr) ==
    [rate |-> r, apr |-> a, monthlyPayments |-> m, discounts |-> d, price |-> pr]

ProductType(name, products) == [name |-> name, products |-> products]

\* The response bodies the quote API answers with in the model.
ApiResponses ==
    { \* one 30 year option
      << ProductType("30 Yr Fixed",
            << ApiProduct({62500}, {64000}, {1384700}, {0}, {100}) >>) >>,
      \* the same best option with another payment and price, and a dearer option
      << ProductType("30 Yr Fixed",
            << ApiProduct({61250}, {63000}, {1370000}, {1}, {101}),
               ApiProduct({62500}, {64000}, {1384900}, {0}, {99}) >>) >>,
      \* the best rate 0.0003 up, the APR unchanged
      << ProductType("30 Yr Fixed",
            << ApiProduct({62503}, {64000}, {1384700}, {0}, {100}) >>) >>,
      \* rate and APR up by 0.125 and 0.1, beside a product type not tracked
      << ProductType("15 Yr Fixed",
            << ApiProduct({55000}, {56000}, {1800000}, {0}, {100}) >>),
         ProductType("30 Yr Fixed",
            << ApiProduct({63750}, {65000}, {1403000}, {}, {100}) >>) >>,
      \* a second tracked product, with a payment and an APR missing
      << ProductType("7 Year ARM",
            << ApiProduct({58750}, {}, {}, {0}, {100}) >>),
         ProductType("30 Yr Fixed",
            << ApiProduct({62500}, {64000}, {1384700}, {0}, {100}) >>) >>,
      \* nothing tracked
      << ProductType("15 Yr Fixed",
            << ApiProduct({55000}, {56000}, {1800000}, {0}, {100}) >>) >> }

\* ------------------------------------------------------------ the history file
\* JSON values: null (and, for "points", an absent key) is <<>>, a number or
\* string v is <<v>>.
to_json(o) == IF o = None THEN <<>> ELSE <<Val(o)>>
from_json(j) == IF j = <<>> THEN None ELSE Some(j[1])

dump_rates(rates) ==
    [i \in 1..Len(rates) |->
        [product |-> rates[i].product,
         rate |-> to_json(rates[i].rate),
         apr |-> to_json(rates[i].apr),
         monthly_payment |-> to_json(rates[i].monthly_payment),
         points |-> to_json(rates[i].points),
         price |-> to_json(rates[i].price)]]

parse_rates(arr) ==
    [i \in 1..Len(arr) |->
        RateOption(arr[i].product, from_json(arr[i].rate), from_json(arr[i].apr),
                   from_json(arr[i].monthly_payment), from_json(arr[i].points),
                   from_json(arr[i].price))]

\* json.dump(history, f): a JSON array of snapshot objects.
json_dump(history) ==
    [type |-> "array",
     items |-> [i \in 1..Len(history) |->
                  [checked_at |-> to_json(history[i].checked_at),
                   rates |-> dump_rates(history[i].rates)]],
     rates |-> <<>>,
     last_checked |-> <<>>]

\* The legacy document {"rates": ..., "last_checked": ...}; rates is <<>> when
\* the key is absent or null, <<array>> otherwise.
LegacyDocument(rates, last_checked) ==
    [type |-> "object", items |-> <<>>, rates |-> rates, last_checked |-> last_checked]

\* json.load(f): a list of snapshot dicts, or the dict of a legacy document.
json_load(doc) ==
    IF doc.type = "array"
    THEN [type |-> "list",
          items |-> [i \in 1..Len(doc.items) |->
                       [checked_at |-> from_json(doc.items[i].checked_at),
                        rates |-> parse_rates(doc.items[i].rates)]],
          rates |-> None,
          last_checked |-> None]
    ELSE [type |-> "dict",
          items |-> <<>>,
          rates |-> IF doc.rates = <<>> THEN None ELSE Some(parse_rates(doc.rates[1])),
          last_checked |-> from_json(doc.last_checked)]

NoFile == [exists |-> FALSE, doc |-> json_dump(<<>>)]
FileOf(doc) == [exists |-> TRUE, doc |-> doc]

\* load_history without the test on the legacy record's rates.
load_history_unguarded(f) ==
    IF ~f.exists THEN <<>>
    ELSE LET data == json_load(f.doc)
         IN IF data.type = "dict"
            THEN IF data.rates # None
                 THEN << [checked_at |-> data.last_checked, rates |-> Val(data.rates)] >>
                 ELSE <<>>
            ELSE data.items

load_history(f) ==
    IF ~f.exists THEN <<>>
    ELSE LET data == json_load(f.doc)
         IN IF data.type = "dict"
            THEN IF data.rates # None /\ Val(data.rates) # <<>>
                 THEN << [checked_at |-> data.last_checked, rates |-> Val(data.rates)] >>
                 ELSE <<>>
            ELSE data.items

\* The file save_history leaves: open(path, "w") drops what was there and
\* json.dump writes the whole history.
save_history(history) == FileOf(json_dump(history))

\* prior_rates reading the oldest snapshot (history[-1]).
prior_rates_oldest(history) ==
    IF history # <<>> THEN history[Len(history)].rates ELSE <<>>

\* history[0]["rates"] if history else []
prior_rates(history) == IF history # <<>> THEN history[1].rates ELSE <<>>

\* insert_snapshot appending (history.append) instead of inserting at 0.
insert_snapshot_at_end(history, now, rates) ==
    history \o << [checked_at |-> Some(now), rates |-> rates] >>

\* history.insert(0, {"checked_at": now.isoformat(), "rates": rates})
insert_snapshot(history, now, rates) ==
    << [checked_at |-> Some(now), rates |-> rates] >> \o history

\* ------------------------------------------------------------------ send_email
\* not GMAIL_USER or not GMAIL_APP_PASSWORD
credentials_missing(e) == e.GMAIL_USER = "" \/ e.GMAIL_APP_PASSWORD = ""

\* The MIMEText message send_email builds; now_pst is the instant of the
\* invocation (send_email reads the clock again, within the same invocation).
build_message(e, old_rates, new_rates, now_pst) ==
    [subject |-> "SFCU Mortgage Rate Change",
     date |-> now_pst,
     from |-> e.GMAIL_USER,
     to |-> ALERT_EMAIL,
     html |-> build_email_html(old_rates, new_rates, now_pst)]

\* ------------------------------------------------------------------- the state
VARIABLES
    pc,           \* where main() stands: "idle" between invocations
    file,         \* DATA_FILE on disk
    runs,         \* invocations started so far
    now,          \* datetime.now() of the current invocation
    env,          \* the credentials the invocation read from its environment
    rates,        \* main's rates
    history,      \* main's history
    old_rates,    \* main's old_rates
    decision,     \* the branch taken on rates_changed: "none" before it
    email,        \* the message send_email built: <<>> or <<msg>>
    delivered,    \* whether the SMTP session accepted it
    console,      \* what the invocation printed
    exit_status,  \* how the last invocation ended, "running" during one
    start_file,   \* DATA_FILE as it was when the invocation started
    prev_status,  \* exit_status of the invocation before the current one
    prev_rates,   \* rates of the invocation before the current one
    installed,    \* the History the installation started with
    completed,    \* invocations that ended with status 0
    calls,        \* the functions applied so far (function specifications)
    arg_old,      \* the old_rates argument
    arg_new,      \* the rates / new_rates argument
    arg_history,  \* the history argument
    ret           \* the value the last call returned

mainVars == <<pc, file, runs, now, env, rates, history, old_rates, decision, email,
              delivered, console, exit_status, start_file, prev_status, prev_rates,
              installed, completed>>
callVars == <<calls, arg_old, arg_new, arg_history, ret>>
vars == <<mainVars, callVars>>

Line(text, data) == [text |-> text, data |-> data]

\* The legacy documents and the missing file an installation can start from.
LegacyRates ==
    << [product |-> "30 Yr Fixed", rate |-> <<62500>>, apr |-> <<64000>>,
        monthly_payment |-> <<1384700>>, points |-> <<0>>, price |-> <<100>>] >>

InitialFiles ==
    { NoFile,
      FileOf(LegacyDocument(<<LegacyRates>>, <<0>>)),
      FileOf(LegacyDocument(<<LegacyRates>>, <<>>)),
      FileOf(LegacyDocument(<< <<>> >>, <<0>>)),
      FileOf(LegacyDocument(<<>>, <<0>>)) }

NoCalls ==
    /\ calls = <<>>
    /\ arg_old = <<>>
    /\ arg_new = <<>>
    /\ arg_history = <<>>
    /\ ret = <<>>

NotRunning ==
    /\ pc = "idle"
    /\ runs = 0
    /\ now = 0
    /\ env = [GMAIL_USER |-> "", GMAIL_APP_PASSWORD |-> ""]
    /\ rates = <<>>
    /\ history = <<>>
    /\ old_rates = <<>>
    /\ decision = "none"
    /\ email = <<>>
    /\ delivered = FALSE
    /\ console = <<>>
    /\ exit_status = "none"
    /\ prev_status = "none"
    /\ prev_rates = <<>>
    /\ completed = 0

Init ==
    /\ file \in InitialFiles
    /\ start_file = file
    /\ installed = load_history(file)
    /\ NotRunning
    /\ NoCalls

\* ------------------------------------------------------------------------ main
\* A fresh process: now, the import of config, print, fetch_rates returning.
MainFetch(data, e) ==
    /\ pc = "idle"
    /\ runs < MaxRuns
    /\ runs' = runs + 1
    /\ now' = runs + 1
    /\ env' = e
    /\ rates' = fetch_rates(data)
    /\ history' = <<>>
    /\ old_rates' = <<>>
    /\ decision' = "none"
    /\ email' = <<>>
    /\ delivered' = FALSE
    /\ console' = << Line("Checking SFCU mortgage rates at", <<runs + 1>>) >>
    /\ exit_status' = "running"
    /\ start_file' = file
    /\ prev_status' = exit_status
    /\ prev_rates' = rates
    /\ pc' = "fetched"
    /\ UNCHANGED <<file, installed, completed, callVars>>

\* requests.post, raise_for_status or resp.json() raises: the invocation dies.
MainFetchError(e) ==
    /\ pc = "idle"
    /\ runs < MaxRuns
    /\ runs' = runs + 1
    /\ now' = runs + 1
    /\ env' = e
    /\ rates' = <<>>
    /\ history' = <<>>
    /\ old_rates' = <<>>
    /\ decision' = "none"
    /\ email' = <<>>
    /\ delivered' = FALSE
    /\ console' = << Line("Checking SFCU mortgage rates at", <<runs + 1>>) >>
    /\ exit_status' = "fetch_error"
    /\ start_file' = file
    /\ prev_status' = exit_status
    /\ prev_rates' = rates
    /\ pc' = "idle"
    /\ UNCHANGED <<file, installed, completed, callVars>>

\* if not rates: print, sys.exit(1)
MainNoRates ==
    /\ pc = "fetched"
    /\ rates = <<>>
    /\ console' = Append(console, Line("ERROR: Failed to fetch any matching rates", <<>>))
    /\ exit_status' = "exit_1"
    /\ pc' = "idle"
    /\ UNCHANGED <<file, runs, now, env, rates, history, old_rates, decision, email,
                   delivered, start_file, prev_status, prev_rates, installed, completed, callVars>>

\* The two prints, load_history and old_rates.
MainLoad ==
    /\ pc = "fetched"
    /\ rates # <<>>
    /\ console' = console \o << Line("Fetched rate options", <<Len(rates)>>),
                                Line("Current Rates:", format_rate_table(rates)) >>
    /\ history' = load_history(file)
    /\ old_rates' = prior_rates(load_history(file))
    /\ pc' = "loaded"
    /\ UNCHANGED <<file, runs, now, env, rates, decision, email, delivered,
                   exit_status, start_file, prev_status, prev_rates, installed, completed, callVars>>

\* else: print("Rates unchanged, no notification needed")
MainUnchanged ==
    /\ pc = "loaded"
    /\ ~rates_changed(old_rates, rates)
    /\ decision' = "unchanged"
    /\ console' = Append(console, Line("Rates unchanged, no notification needed", <<>>))
    /\ pc' = "notified"
    /\ UNCHANGED <<file, runs, now, env, rates, history, old_rates, email, delivered,
                   exit_status, start_file, prev_status, prev_rates, installed, completed, callVars>>

\* MainSendSkipped with send_email raising on the missing credentials.
MainSendSkipped_Raises ==
    /\ pc = "loaded"
    /\ rates_changed(old_rates, rates)
    /\ credentials_missing(env)
    /\ decision' = "changed"
    /\ console' = Append(console, Line("Rates have changed! Sending notification...", <<>>))
    /\ exit_status' = "send_error"
    /\ pc' = "idle"
    /\ UNCHANGED <<file, runs, now, env, rates, history, old_rates, email, delivered,
                   start_file, prev_status, prev_rates, installed, completed, callVars>>

\* send_email returns at once: the credentials are not both set.
MainSendSkipped ==
    /\ pc = "loaded"
    /\ rates_changed(old_rates, rates)
    /\ credentials_missing(env)
    /\ decision' = "changed"
    /\ console' = console \o
          << Line("Rates have changed! Sending notification...", <<>>),
             Line("Email credentials not configured, skipping email notification", <<>>),
             Line("Set GMAIL_USER and GMAIL_APP_PASSWORD environment variables", <<>>) >>
    /\ pc' = "notified"
    /\ UNCHANGED <<file, runs, now, env, rates, history, old_rates, email, delivered,
                   exit_status, start_file, prev_status, prev_rates, installed, completed, callVars>>

\* send_email builds the message and the SMTP session takes it.
MainSendOk ==
    /\ pc = "loaded"
    /\ rates_changed(old_rates, rates)
    /\ ~credentials_missing(env)
    /\ decision' = "changed"
    /\ email' = << build_message(env, old_rates, rates, now) >>
    /\ delivered' = TRUE
    /\ console' = console \o
          << Line("Rates have changed! Sending notification...", <<>>),
             Line("Email sent to", <<>>) >>
    /\ pc' = "notified"
    /\ UNCHANGED <<file, runs, now, env, rates, history, old_rates,
                   exit_status, start_file, prev_status, prev_rates, installed, completed, callVars>>

\* MainSendError with the snapshot saved before the notification is attempted.
MainSendError_AfterSave ==
    /\ pc = "loaded"
    /\ rates_changed(old_rates, rates)
    /\ ~credentials_missing(env)
    /\ decision' = "changed"
    /\ email' = << build_message(env, old_rates, rates, now) >>
    /\ history' = insert_snapshot(history, now, rates)
    /\ file' = save_history(insert_snapshot(history, now, rates))
    /\ console' = Append(console, Line("Rates have changed! Sending notification...", <<>>))
    /\ exit_status' = "send_error"
    /\ pc' = "idle"
    /\ UNCHANGED <<runs, now, env, rates, old_rates, delivered,
                   start_file, prev_status, prev_rates, installed, completed, callVars>>

\* send_email builds the message and SMTP_SSL, login or send_message raises:
\* nothing catches it, the invocation dies before history.insert and save_history.
MainSendError ==
    /\ pc = "loaded"
    /\ rates_changed(old_rates, rates)
    /\ ~credentials_missing(env)
    /\ decision' = "changed"
    /\ email' = << build_message(env, old_rates, rates, now) >>
    /\ console' = Append(console, Line("Rates have changed! Sending notification...", <<>>))
    /\ exit_status' = "send_error"
    /\ pc' = "idle"
    /\ UNCHANGED <<file, runs, now, env, rates, history, old_rates, delivered,
                   start_file, prev_status, prev_rates, installed, completed, callVars>>

\* history.insert(0, ...), save_history(history), and the process ends with 0.
MainSave ==
    /\ pc = "notified"
    /\ history' = insert_snapshot(history, now, rates)
    /\ file' = save_history(insert_snapshot(history, now, rates))
    /\ console' = Append(console, Line("Saved snapshots to", <<Len(history) + 1>>))
    /\ exit_status' = "ok"
    /\ completed' = completed + 1
    /\ pc' = "idle"
    /\ UNCHANGED <<runs, now, env, rates, old_rates, decision, email, delivered,
                   start_file, prev_status, prev_rates, installed, callVars>>

Next ==
    \/ \E data \in ApiResponses, e \in Environments : MainFetch(data, e)
    \/ \E e \in Environments : MainFetchError(e)
    \/ MainNoRates
    \/ MainLoad
    \/ MainUnchanged
    \/ MainSendSkipped
    \/ MainSendOk
    \/ MainSendError
    \/ MainSave

Spec == Init /\ [][Next]_vars

\* ============================================================ claims on main
\* The snapshot the current (or last) invocation holds, as stored.
NewSnapshot == [checked_at |-> {now}, rates |-> rates]

\* The invocation has ended (one way or another).
RunEnded == pc = "idle" /\ runs > 0

\* What history[0] held when the invocation started, [] without one.
PriorAtStart ==
    LET h == load_history(start_file)
    IN IF Len(h) = 0 THEN <<>> ELSE h[1].rates

\* C1 as stated: every invocation that has ended has put exactly its own
\* snapshot in front of the stored History and kept the rest, and the History
\* is as long as the number of invocations.
C1_EveryRunPrepends ==
    RunEnded =>
        /\ load_history(file) = <<NewSnapshot>> \o load_history(start_file)
        /\ Len(load_history(file)) = runs

\* C1 amended: an invocation that ends with status 0 has put exactly its own
\* snapshot in front of the stored History and kept the rest in order; one that
\* ends otherwise (no matching rates, a fetch or transport failure) leaves the
\* file as it was, as does a running one; so the History is the snapshots of the
\* completed invocations, newest first, in front of the History the
\* installation started with, and its length is their number plus that length.
C1_CompletedRunPrepends ==
    LET h == load_history(file)
    IN /\ (RunEnded /\ exit_status = "ok") =>
            h = <<NewSnapshot>> \o load_history(start_file)
       /\ (RunEnded /\ exit_status # "ok") => file = start_file
       /\ pc # "idle" => file = start_file
       /\ Len(h) = completed + Len(installed)
       /\ \A i \in 1..Len(installed) : h[completed + i] = installed[i]
       /\ \A i \in 1..completed :
            /\ h[i].checked_at # None
            /\ i > 1 => Val(h[i].checked_at) < Val(h[i - 1].checked_at)

\* C1's witness: a second completed invocation on top of a migrated legacy file.
C1_Witness ==
    /\ RunEnded
    /\ exit_status = "ok"
    /\ completed = 2
    /\ Len(installed) = 1
    /\ Len(load_history(file)) = 3

\* C2 as stated: once the branch on rates_changed is taken, an e-mail has been
\* rendered and sent exactly if rates_changed(prior, new) holds, prior being
\* the rates of history[0] at the start.
C2_SentIffChanged ==
    decision # "none" =>
        ((email # <<>> /\ delivered) <=> rates_changed(PriorAtStart, rates))

\* C2 amended: send_email is called exactly if rates_changed(prior, new) holds,
\* prior being the rates of history[0] only; the e-mail is rendered exactly if
\* moreover both credentials are set, and sent exactly if moreover the
\* transport does not fail; an unchanged invocation sends nothing and logs
\* "unchanged".
C2_SendCalledIffChanged ==
    decision # "none" =>
        /\ (decision = "changed") <=> rates_changed(PriorAtStart, rates)
        /\ (email # <<>>) <=> (decision = "changed" /\ ~credentials_missing(env))
        /\ delivered <=> (email # <<>> /\ exit_status # "send_error")
        /\ decision = "unchanged" =>
              \E i \in 1..Len(console) :
                 console[i].text = "Rates unchanged, no notification needed"

\* C2's witness: an unchanged invocation over a History of two snapshots whose
\* older snapshot differs from the fetched rates.
C2_Witness ==
    /\ decision = "unchanged"
    /\ Len(load_history(start_file)) = 2
    /\ rates_changed(load_history(start_file)[2].rates, rates)

\* C3: the file is not written before the notification is over; an invocation
\* killed by the transport leaves the file as it found it, and the next
\* invocation, fetching the same rates, takes the "changed" branch again.
C3_SendFailureKeepsHistory ==
    /\ pc \in {"fetched", "loaded", "notified"} => file = start_file
    /\ exit_status = "send_error" =>
          /\ pc = "idle"
          /\ file = start_file
          /\ load_history(file) = history
    /\ (prev_status = "send_error" /\ rates = prev_rates /\ pc \in {"loaded", "notified"}) =>
          /\ old_rates = PriorAtStart
          /\ rates_changed(old_rates, rates)
          /\ decision \in {"none", "changed"}

\* C3's witness: the invocation after a failed send, over a stored snapshot,
\* has taken the "changed" branch for the same rates.
C3_Witness ==
    /\ prev_status = "send_error"
    /\ rates = prev_rates
    /\ old_rates # <<>>
    /\ decision = "changed"

\* C4: with a credential missing send_email returns without building or
\* sending anything, the invocation goes on to save, and ends with status 0
\* and its snapshot in front of the History.
C4_MissingCredentialsContinue ==
    (decision = "changed" /\ credentials_missing(env)) =>
        /\ email = <<>>
        /\ ~delivered
        /\ pc = "notified" => (exit_status = "running" /\ ENABLED MainSave)
        /\ pc # "notified" =>
              /\ pc = "idle"
              /\ exit_status = "ok"
              /\ load_history(file) = <<NewSnapshot>> \o load_history(start_file)

\* C4's witness: such an invocation has ended.
C4_Witness ==
    /\ decision = "changed"
    /\ env.GMAIL_USER # ""
    /\ env.GMAIL_APP_PASSWORD = ""
    /\ pc = "idle"
    /\ exit_status = "ok"

\* C9 as stated: without a history file, an invocation that fetched a rate
\* option sends an e-mail headed "Initial".
C9_FirstRunSendsInitial ==
    (start_file = NoFile /\ decision # "none") =>
        /\ email # <<>>
        /\ delivered
        /\ email[1].html.header = "Initial"

\* C9 amended: without a history file load_history returns [], and an
\* invocation that fetched a rate option always calls send_email; with both
\* credentials set the e-mail is built and headed "Initial", and it is sent
\* unless the transport fails.  The header is "Initial" exactly when the
\* prior rates are empty.
C9_FirstRunCallsSendInitial ==
    /\ (start_file = NoFile /\ pc \in {"loaded", "notified"}) => history = <<>>
    /\ (start_file = NoFile /\ pc \in {"loaded", "notified"} /\ decision # "none") =>
          /\ decision = "changed"
          /\ ~credentials_missing(env) => (email # <<>> /\ delivered)
    /\ (start_file = NoFile /\ RunEnded /\ rates # <<>>) =>
          /\ decision = "changed"
          /\ ~credentials_missing(env) =>
                (email # <<>> /\ (delivered <=> exit_status # "send_error"))
    /\ email # <<>> =>
          /\ email[1].html.header \in {"Initial", "Change"}
          /\ email[1].html.header = "Initial" <=> PriorAtStart = <<>>

\* C9's witness: the first invocation, without a file, has sent its e-mail.
C9_Witness ==
    /\ start_file = NoFile
    /\ delivered
    /\ email[1].html.header = "Initial"

\* The summary row of a product.
SummaryRow(html, p) ==
    html.summary[CHOOSE i \in 1..Len(html.summary) : html.summary[i].product = p]

\* The products both reductions have with a rate (an APR) on both sides.
BothBest == DOMAIN best_by_product(old_rates) \cap DOMAIN best_by_product(rates)
RateDiff(p) == Val(best_by_product(rates)[p].rate) - Val(best_by_product(old_rates)[p].rate)
AprDiff(p) == Val(best_by_product(rates)[p].apr) - Val(best_by_product(old_rates)[p].apr)
HasRates(p) == best_by_product(rates)[p].rate # {} /\ best_by_product(old_rates)[p].rate # {}
HasAprs(p) == best_by_product(rates)[p].apr # {} /\ best_by_product(old_rates)[p].apr # {}

\* The marker the summary table is to show for a difference (units of 0.0001).
ExpectedMarker(d) ==
    IF d > -5 /\ d < 5 THEN "no change"
    ELSE IF d > 0 THEN "&#9650; +%.3f%" ELSE "&#9660; %.3f%"

\* C10 as stated: a best rate (or APR) that moved by less than 0.0005, and not
\* by 0, makes rates_changed true and an e-mail is sent, whose summary row says
\* "no change"; a move of 0.0005 or more shows the up or the down marker.
C10_SubEpsilonSendsNoChange ==
    (decision # "none" /\ old_rates # <<>>) =>
        \A p \in BothBest :
            /\ (HasRates(p) /\ RateDiff(p) # 0) =>
                  /\ rates_changed(old_rates, rates)
                  /\ email # <<>>
                  /\ delivered
                  /\ SummaryRow(email[1].html, p).rate_change.text
                        = ExpectedMarker(RateDiff(p))
            /\ (HasAprs(p) /\ AprDiff(p) # 0) =>
                  /\ rates_changed(old_rates, rates)
                  /\ email # <<>>
                  /\ delivered
                  /\ SummaryRow(email[1].html, p).apr_change.text
                        = ExpectedMarker(AprDiff(p))

\* C10 amended: such a move makes rates_changed true and send_email is called;
\* whenever the e-mail is built (both credentials set) its summary row for the
\* product says "no change" for a move under 0.0005 and shows the up marker for
\* a move of 0.0005 or more upwards, the down marker downwards.
C10_SubEpsilonCallsSendNoChange ==
    (decision # "none" /\ old_rates # <<>>) =>
        \A p \in BothBest :
            /\ (HasRates(p) /\ RateDiff(p) # 0) =>
                  /\ rates_changed(old_rates, rates)
                  /\ decision = "changed"
                  /\ email # <<>> <=> ~credentials_missing(env)
            /\ (HasAprs(p) /\ AprDiff(p) # 0) =>
                  /\ rates_changed(old_rates, rates)
                  /\ decision = "changed"
                  /\ email # <<>> <=> ~credentials_missing(env)
            /\ (email # <<>> /\ HasRates(p)) =>
                  SummaryRow(email[1].html, p).rate_change.text
                     = ExpectedMarker(RateDiff(p))
            /\ (email # <<>> /\ HasAprs(p)) =>
                  SummaryRow(email[1].html, p).apr_change.text
                     = ExpectedMarker(AprDiff(p))

\* C10's witness: an e-mail sent for a best rate that moved by 0.0003, its
\* summary row saying "no change" for the rate.
C10_Witness ==
    /\ delivered
    /\ old_rates # <<>>
    /\ \E p \in BothBest :
          /\ HasRates(p)
          /\ RateDiff(p) = 3
          /\ SummaryRow(email[1].html, p).rate_change.text = "no change"

\* ====================================================== function specifications
\* A function specification draws the arguments in its initial states and
\* applies the function in an action; main stands still.
MainStill ==
    /\ file = NoFile
    /\ start_file = NoFile
    /\ installed = <<>>
    /\ NotRunning

\* ------------------------------------------------------------ best_by_product
\* Options of two products with every kind of points: stated (0, 1, 99, 100)
\* and absent; the rate tells options of equal points apart.
ReduceOptions ==
    { RateOption(p, {r}, {64000}, {}, pts, {}) :
        p \in {"30 Yr Fixed", "7 Year ARM"},
        r \in {62500, 63750},
        pts \in {{}, {0}, {1}, {99}, {100}} }

InitReduce ==
    /\ MainStill
    /\ calls = <<>>
    /\ arg_old = <<>>
    /\ arg_new \in SeqsUpTo(ReduceOptions, MaxLen)
    /\ arg_history = <<>>
    /\ ret = <<>>

CallBestByProduct ==
    /\ calls = <<>>
    /\ calls' = <<"best_by_product">>
    /\ ret' = best_by_product(arg_new)
    /\ UNCHANGED <<mainVars, arg_old, arg_new, arg_history>>

NextReduce == CallBestByProduct

SpecReduce == InitReduce /\ [][NextReduce]_vars

\* Points with an absent value read as +infinity.
InfLess(a, b) == a # {} /\ (b = {} \/ Val(a) < Val(b))

\* C5: best_by_product(rates) has exactly the products of rates, and holds for
\* each the first option, in input order, of least points among the options of
\* the product, absent points counting as +infinity.
C5_FirstOfLeastPoints ==
    calls = <<"best_by_product">> =>
        /\ DOMAIN ret = Products(arg_new)
        /\ \A p \in Products(arg_new) :
              \E i \in 1..Len(arg_new) :
                 /\ arg_new[i].product = p
                 /\ ret[p] = arg_new[i]
                 /\ \A j \in 1..Len(arg_new) :
                       arg_new[j].product = p =>
                          /\ ~InfLess(arg_new[j].points, arg_new[i].points)
                          /\ j < i => InfLess(arg_new[i].points, arg_new[j].points)

\* -------------------------------------------------------------- rates_changed
\* Options that differ in what rates_changed reads (product, best rate, best
\* APR, points) and in what it does not (payment, price).
ChangedOptions ==
    { RateOption("30 Yr Fixed", {62500}, {64000}, {1384700}, {0}, {100}),
      RateOption("30 Yr Fixed", {62500}, {64000}, {1390000}, {1}, {101}),
      RateOption("30 Yr Fixed", {63750}, {64000}, {1384700}, {0}, {100}),
      RateOption("30 Yr Fixed", {62500}, {65000}, {1384700}, {1}, {100}),
      RateOption("30 Yr Fixed", {}, {64000}, {}, {}, {}),
      RateOption("7 Year ARM", {58750}, {}, {1200000}, {0}, {100}),
      RateOption("7 Year ARM", {58750}, {61000}, {1200000}, {}, {100}) }

InitChanged ==
    /\ MainStill
    /\ calls = <<>>
    /\ arg_old \in SeqsUpTo(ChangedOptions, MaxPairLen)
    /\ arg_new \in SeqsUpTo(ChangedOptions, MaxPairLen)
    /\ arg_history = <<>>
    /\ ret = <<>>

CallRatesChanged ==
    /\ calls = <<>>
    /\ calls' = <<"rates_changed">>
    /\ ret' = rates_changed(arg_old, arg_new)
    /\ UNCHANGED <<mainVars, arg_old, arg_new, arg_history>>

NextChanged == CallRatesChanged

SpecChanged == InitChanged /\ [][NextChanged]_vars

\* C6: rates_changed([], new) is True for a non-empty new, and
\* rates_changed(X, X) is False for a non-empty X.
C6_FirstRunAndReflexive ==
    calls = <<"rates_changed">> =>
        /\ (arg_old = <<>> /\ arg_new # <<>>) => ret = TRUE
        /\ (arg_old # <<>> /\ arg_new = arg_old) => ret = FALSE

\* C6's witness: rates_changed(X, X) has returned False for an X of two
\* options of one product.
C6_Witness ==
    /\ calls = <<"rates_changed">>
    /\ Len(arg_old) = 2
    /\ arg_new = arg_old
    /\ arg_old[1].product = arg_old[2].product
    /\ arg_old[1] # arg_old[2]
    /\ ret = FALSE

\* The two reductions have the same products and, per product, the same rate
\* and the same APR.
SameBest(old, new) ==
    LET old_best == best_by_product(old)
        new_best == best_by_product(new)
    IN /\ DOMAIN old_best = DOMAIN new_best
       /\ \A p \in DOMAIN new_best :
             /\ old_best[p].rate = new_best[p].rate
             /\ old_best[p].apr = new_best[p].apr

\* C7 as stated: for all old and new, rates_changed(old, new) is False exactly
\* if the reductions have the same products and the same (rate, apr) per product.
C7_FalseIffSameBest ==
    calls = <<"rates_changed">> =>
        (ret = FALSE <=> SameBest(arg_old, arg_new))

\* C7 amended: for all old and new with old not empty, rates_changed(old, new)
\* is False exactly if the reductions have the same products and the same
\* (rate, apr) per product, whatever the other fields; with old empty it is True.
C7_FalseIffSameBestOfNonEmptyOld ==
    calls = <<"rates_changed">> =>
        /\ arg_old # <<>> => (ret = FALSE <=> SameBest(arg_old, arg_new))
        /\ arg_old = <<>> => ret = TRUE

\* C7's witness: False for reductions that agree in rate and APR and differ in
\* points, payment and price.
C7_Witness ==
    /\ calls = <<"rates_changed">>
    /\ ret = FALSE
    /\ \E p \in DOMAIN best_by_product(arg_new) :
          /\ p \in DOMAIN best_by_product(arg_old)
          /\ best_by_product(arg_old)[p].points # best_by_product(arg_new)[p].points
          /\ best_by_product(arg_old)[p].price # best_by_product(arg_new)[p].price
          /\ best_by_product(arg_old)[p].monthly_payment
                # best_by_product(arg_new)[p].monthly_payment

\* ------------------------------------------------ save_history, load_history
StoredRates ==
    { <<>>,
      parse_rates(LegacyRates),
      << RateOption("30 Yr Fixed", {63750}, {65000}, {}, {1}, {100}),
         RateOption("7 Year ARM", {58750}, {}, {1200000}, {}, {}) >> }

Snapshots == [checked_at : {{}, {0}, {1}}, rates : StoredRates]

InitStore ==
    /\ file \in InitialFiles
    /\ start_file = file
    /\ installed = <<>>
    /\ NotRunning
    /\ calls = <<>>
    /\ arg_old = <<>>
    /\ arg_new = <<>>
    /\ arg_history \in SeqsUpTo(Snapshots, MaxSnaps)
    /\ ret = <<>>

CallSaveHistory ==
    /\ Len(calls) < MaxCalls
    /\ calls' = Append(calls, "save_history")
    /\ file' = save_history(arg_history)
    /\ ret' = <<>>
    /\ UNCHANGED <<pc, runs, now, env, rates, history, old_rates, decision, email,
                   delivered, console, exit_status, start_file, prev_status,
                   prev_rates, installed, completed, arg_old, arg_new, arg_history>>

CallLoadHistory ==
    /\ Len(calls) < MaxCalls
    /\ calls' = Append(calls, "load_history")
    /\ ret' = load_history(file)
    /\ UNCHANGED <<mainVars, arg_old, arg_new, arg_history>>

NextStore == CallSaveHistory \/ CallLoadHistory

SpecStore == InitStore /\ [][NextStore]_vars

Saved == \E i \in 1..Len(calls) : calls[i] = "save_history"

\* What a legacy document is to load as.
Migrated(doc) ==
    IF doc.rates = <<>> \/ doc.rates[1] = <<>> THEN <<>>
    ELSE << [checked_at |-> from_json(doc.last_checked),
             rates |-> parse_rates(doc.rates[1])] >>

\* C8: load_history after save_history(H) returns H, whatever the file held
\* before; without a file it returns []; a legacy record with rates loads as
\* the one snapshot {checked_at: last_checked, rates: rates} and one whose
\* rates are empty or absent as []; the migrated form loads back as itself
\* once saved.
C8_LoadAfterSave ==
    (calls # <<>> /\ calls[Len(calls)] = "load_history") =>
        /\ Saved => ret = arg_history
        /\ (~Saved /\ ~file.exists) => ret = <<>>
        /\ (~Saved /\ file.exists) => ret = Migrated(file.doc)

\* C8's witness: the migrated form of a legacy file saved over that file and
\* loaded back.
C8_Witness ==
    /\ calls = <<"save_history", "load_history">>
    /\ start_file.exists
    /\ arg_history = Migrated(start_file.doc)
    /\ Len(arg_history) = 1
    /\ ret = arg_history

====
